---- MODULE Spec2Model ----
(***************************************************************************)
(* Model of huti.functions.cache (src/src/huti/functions.py, 314-447): the *)
(* memoizing decorator, its synchronous wrapper and its asynchronous       *)
(* wrapper under cooperative scheduling.                                   *)
(*                                                                         *)
(* A call key is the text jsonpickle.encode((args, kwargs)) returns; the   *)
(* text is modelled as the sequence of its JSON tokens.                    *)
(***************************************************************************)
EXTENDS Integers, Sequences, FiniteSets, Bags, TLC

\* Bounds of the model.
MaxCalls == 3
MaxTasks == 2

(***************************************************************************)
(* Argument values.  A value is an int, a str, a dict (its items in        *)
(* insertion order, as a Python dict keeps them) or an open resource       *)
(* handle, which cannot be encoded.                                        *)
(***************************************************************************)
IntV(n) == [int |-> n]
StrV(s) == [str |-> s]
DictV(items) == [dict |-> items]
Handle == [handle |-> "fd"]

IsInt(v) == DOMAIN v = {"int"}
IsStr(v) == DOMAIN v = {"str"}
IsDict(v) == DOMAIN v = {"dict"}
IsHandle(v) == DOMAIN v = {"handle"}

\* One invocation's arguments: (args, kwargs), kwargs in call order.
Call(args, kwargs) == [args |-> args, kwargs |-> kwargs]

\* f(a={1: 0}, b=0); the same keywords in the other order; the same call with
\* the str key "1" in place of the int key 1; and f(fd) with an open handle.
A_ab == Call(<<>>, << <<StrV("a"), DictV(<< <<IntV(1), IntV(0)>> >>)>>, <<StrV("b"), IntV(0)>> >>)
A_ba == Call(<<>>, << <<StrV("b"), IntV(0)>>, <<StrV("a"), DictV(<< <<IntV(1), IntV(0)>> >>)>> >>)
A_str == Call(<<>>, << <<StrV("a"), DictV(<< <<StrV("1"), IntV(0)>> >>)>>, <<StrV("b"), IntV(0)>> >>)
A_handle == Call(<<Handle>>, <<>>)

ArgSets == {A_ab, A_ba, A_str, A_handle}

\* Python equality of two values; two dicts are equal when they hold the same
\* items, in any order.
RECURSIVE ValueEq(_, _)
ValueEq(u, v) ==
    IF IsDict(u) /\ IsDict(v)
    THEN /\ Len(u.dict) = Len(v.dict)
         /\ \A i \in 1..Len(u.dict) : \E j \in 1..Len(v.dict) :
               /\ u.dict[i][1] = v.dict[j][1]
               /\ ValueEq(u.dict[i][2], v.dict[j][2])
    ELSE u = v

\* Structural equality of two invocations: args == args and kwargs == kwargs.
StructEq(A1, A2) ==
    /\ Len(A1.args) = Len(A2.args)
    /\ \A i \in 1..Len(A1.args) : ValueEq(A1.args[i], A2.args[i])
    /\ ValueEq(DictV(A1.kwargs), DictV(A2.kwargs))

(***************************************************************************)
(* jsonpickle.encode((args, kwargs)) with its defaults (keys=False, no     *)
(* sorting of keys): a tuple becomes {"py/tuple": [...]}, a dict becomes a *)
(* JSON object whose members follow the dict's insertion order and whose   *)
(* non-str keys are coerced to text with repr().                           *)
(***************************************************************************)
Digits == <<"0", "1", "2", "3", "4", "5", "6", "7", "8", "9">>
Repr(n) == Digits[n + 1]
Quote(s) == <<"\"", s, "\"">>

RECURSIVE Serializable(_)
Serializable(v) ==
    IF IsHandle(v) THEN FALSE
    ELSE IF IsDict(v)
         THEN \A i \in 1..Len(v.dict) : Serializable(v.dict[i][2])
         ELSE TRUE

KeyText(k) == IF IsInt(k) THEN Repr(k.int) ELSE k.str

RECURSIVE Flatten(_)
RECURSIVE FlattenItems(_, _)
FlattenItems(items, i) ==
    IF i > Len(items) THEN <<>>
    ELSE (IF i > 1 THEN <<",">> ELSE <<>>)
         \o Quote(KeyText(items[i][1])) \o <<":">> \o Flatten(items[i][2])
         \o FlattenItems(items, i + 1)

Flatten(v) ==
    IF IsInt(v) THEN <<Repr(v.int)>>
    ELSE IF IsStr(v) THEN Quote(v.str)
    ELSE <<"{">> \o FlattenItems(v.dict, 1) \o <<"}">>

RECURSIVE FlattenSeq(_, _)
FlattenSeq(vs, i) ==
    IF i > Len(vs) THEN <<>>
    ELSE (IF i > 1 THEN <<",">> ELSE <<>>) \o Flatten(vs[i]) \o FlattenSeq(vs, i + 1)

FlattenTuple(body) == <<"{">> \o Quote("py/tuple") \o <<":", "[">> \o body \o <<"]", "}">>

\* The key None of the wrapper before key derivation, falsy like None.
NoKey == <<>>

\* ok: encode returned; key: the text.  Not ok: encode raised.
Pickle(A) ==
    IF /\ \A i \in 1..Len(A.args) : Serializable(A.args[i])
       /\ Serializable(DictV(A.kwargs))
    THEN [ok |-> TRUE,
          key |-> FlattenTuple(FlattenTuple(FlattenSeq(A.args, 1))
                               \o <<",">> \o Flatten(DictV(A.kwargs)))]
    ELSE [ok |-> FALSE, key |-> NoKey]

\* The encoder is a function of its argument: its text for each invocation.
Encoded == [A \in ArgSets |-> Pickle(A)]

\* key = jsonpickle.encode((args, kwargs)), lines 420 and 437
Encode(A) == Encoded[A]

Keys == {Encode(A).key : A \in {B \in ArgSets : Encode(B).ok}}

(***************************************************************************)
(* The wrapped callables and what one execution of F can do.               *)
(***************************************************************************)
Funcs == {[name |-> "test", async |-> FALSE], [name |-> "test_async", async |-> TRUE]}
NoFunc == [name |-> "", async |-> FALSE]
Wrappers == {"w1", "w2"}

Returns(v) == [ok |-> TRUE, v |-> v]
Raises(e) == [ok |-> FALSE, v |-> e]
Outcomes == {Returns("None"), Returns("r1"), Raises("TypeError")}
Cancelled == Raises("CancelledError")

VARIABLES
    wrapped,    \* wrapper -> the func given to cache(), NoFunc before cache() ran
    coro,       \* wrapper -> the wrapper's coro (line 412)
    memo,       \* wrapper -> its memo dict: key -> value
    frames,     \* bag of the frames of the async wrapper calls in flight
    warnings,   \* wrapper -> number of log.warning("Not cached") events
    ncalls,     \* number of invocations made so far
    ret,        \* what the latest finished call delivered to its caller
    execs,      \* history: wrapper -> key -> number of executions of F
    seen,       \* history: wrapper -> keys of the calls that ran the lookup
    failed,     \* history: wrapper -> some call of it ended in an exception
    storer      \* history: wrapper -> key -> args of the call that stored it

VARIABLES
    environ,      \* os.environ restricted to PYTHON_VERSION and PYTHON_REQUIRES
    interpreter,  \* platform.python_version()
    pv_ret,       \* what python_version() returned, once it was called
    sys_stdout,   \* sys.stdout
    sys_stderr,   \* sys.stderr
    blocks,       \* the stdquiet() blocks entered and not left, innermost last
    streams,      \* the io.StringIO objects made so far: closed or not, position
    sq_exit,      \* how the latest stdquiet() block was left
    dmg_src,      \* the src argument of the run of dmg() or aiodmg()
    dmg_pc,       \* the statement the run is at
    dmg_item,     \* the index of the item the loop of the run is at
    mounted,      \* whether the disk image is attached at the mount point
    commands      \* history: the commands the run has run, with their outcomes

cacheVars == <<wrapped, coro, memo, frames, warnings, ncalls, ret, execs, seen,
               failed, storer>>
versionVars == <<environ, interpreter, pv_ret>>
quietVars == <<sys_stdout, sys_stderr, blocks, streams, sq_exit>>
dmgVars == <<dmg_src, dmg_pc, dmg_item, mounted, commands>>
vars == <<cacheVars, versionVars, quietVars, dmgVars>>

\* The frame of a coroutine of the async wrapper that has not run yet.
Frame(w, A) == [pc |-> "created", w |-> w, A |-> A, key |-> NoKey, save |-> TRUE]
One(f) == SetToBag({f})
NoRet == [kind |-> "none", w |-> "", A |-> Call(<<>>, <<>>), out |-> Returns(""),
          via |-> ""]

CacheIdle ==
    /\ wrapped = [w \in Wrappers |-> NoFunc]
    /\ coro = [w \in Wrappers |-> FALSE]
    /\ memo = [w \in Wrappers |-> <<>>]
    /\ frames = EmptyBag
    /\ warnings = [w \in Wrappers |-> 0]
    /\ ncalls = 0
    /\ ret = NoRet
    /\ execs = [w \in Wrappers |-> [k \in Keys \cup {NoKey} |-> 0]]
    /\ seen = [w \in Wrappers |-> {}]
    /\ failed = [w \in Wrappers |-> FALSE]
    /\ storer = [w \in Wrappers |-> <<>>]

\* python_version() not called: no variable set, the interpreter is 3.12.1.
VersionIdle ==
    /\ environ = <<>>
    /\ interpreter = <<"3", ".", "1", "2", ".", "1">>
    /\ pv_ret = [done |-> FALSE, value |-> <<>>]

\* The streams of the process, before any stdquiet() block.
File(fd) == [kind |-> "file", n |-> fd]
StringIO(n) == [kind |-> "StringIO", n |-> n]

QuietIdle ==
    /\ sys_stdout = File(1)
    /\ sys_stderr = File(2)
    /\ blocks = <<>>
    /\ streams = <<>>
    /\ sq_exit = "none"

\* No run of dmg() or aiodmg().
DmgIdle ==
    /\ dmg_src = [fn |-> "none", kind |-> "none", items |-> <<>>]
    /\ dmg_pc = "idle"
    /\ dmg_item = 0
    /\ mounted = FALSE
    /\ commands = <<>>

Init == CacheIdle /\ VersionIdle /\ QuietIdle /\ DmgIdle

(***************************************************************************)
(* The pieces of the two wrappers, line for line.                          *)
(***************************************************************************)
\* The test gone wrong: inspect.iscoroutine(func), false of every function.
IsCoroutine(f) == FALSE

\* inspect.iscoroutinefunction(func), line 412
IsCoroutineFunction(f) == f.async

\* The dict gone wrong: one module-level dict that every wrapper uses.
MemoShared(w) == "w1"

\* `memo = {}`, line 409: the dict the application of cache that makes wrapper w
\* creates; memo[MemoOf(w)] is the dict the closure of w reads and writes.
MemoOf(w) == w

\* The lookup gone wrong: the test never succeeds.
HitNever(m, e) == FALSE

\* The lookup gone wrong: `if memo.get(key)`, a test of the stored value.
HitTruthy(m, e) == e.ok /\ e.key \in DOMAIN m /\ m[e.key] # "None"

\* The lookup gone wrong: once a key derivation has failed, caching stays off.
HitUnlessWarned(m, e) ==
    e.ok /\ e.key \in DOMAIN m /\ \A w \in DOMAIN warnings : warnings[w] = 0

\* `key in memo`, reached only when encode returned
Hit(m, e) == e.ok /\ e.key \in DOMAIN m

\* Lookup gone wrong: the entry of some key of the dict, not of the call's key.
LookupAny(m, key) == m[CHOOSE k \in DOMAIN m : \A j \in DOMAIN m : Len(j) <= Len(k)]

\* `return memo[key]`
Lookup(m, key) == m[key]

\* Store gone wrong: a table bounded to one entry, the latest.
StoreBounded(m, key, save, value) ==
    IF key # NoKey /\ save THEN [k \in {key} |-> value] ELSE m

\* Store gone wrong: the result is never kept.
StoreNothing(m, key, save, value) == m

\* Store gone wrong: the guard `key and save` is missing, so memo[None] is set.
StoreUnguarded(m, key, save, value) ==
    [k \in DOMAIN m \cup {key} |-> IF k = key THEN value ELSE m[k]]

\* `if key and save: memo[key] = value`
Store(m, key, save, value) ==
    IF key # NoKey /\ save
    THEN [k \in DOMAIN m \cup {key} |-> IF k = key THEN value ELSE m[k]]
    ELSE m

\* The store gone wrong: done in a `finally`, so also when F raised.
FinishAlways(m, key, save, o) == Store(m, key, save, o.v)

\* `value = [await] func(*args, **kwargs)` and the lines after it: they run
\* only when F returned; when F raised the exception leaves the wrapper.
Finish(m, key, save, o) == IF o.ok THEN Store(m, key, save, o.v) ELSE m

\* The log gone wrong: a warning for every call that executes F.
WarnAlways(n, e) == n + 1

\* log.warning("Not cached", ...) in the except branch
Warn(n, e) == IF e.ok THEN n ELSE n + 1

\* What the call hands to its caller, and how the caller gets it.
Deliver(kind, w, A, out) ==
    [kind |-> kind, w |-> w, A |-> A, out |-> out,
     via |-> IF coro[w] THEN "await" ELSE "return"]

Kind(save) == IF save THEN "miss" ELSE "bypass"

\* History: the args of the call whose store made the entry of a key.
NoteStore(w, A, key, save, out) ==
    IF out.ok /\ key # NoKey /\ save
    THEN [storer EXCEPT ![w] =
             [k \in DOMAIN @ \cup {key} |-> IF k = key THEN A ELSE @[k]]]
    ELSE storer

(***************************************************************************)
(* cache(func): lines 409-447.  The wrappers are made in order.            *)
(***************************************************************************)
Cache(w, f) ==
    /\ wrapped[w] = NoFunc
    /\ w = "w2" => wrapped["w1"] # NoFunc
    /\ wrapped' = [wrapped EXCEPT ![w] = f]
    /\ coro' = [coro EXCEPT ![w] = IsCoroutineFunction(f)]
    /\ UNCHANGED <<memo, frames, warnings, ncalls, ret, execs, seen, failed, storer>>
    /\ UNCHANGED <<versionVars, quietVars, dmgVars>>

(***************************************************************************)
(* The synchronous wrapper, lines 432-446.  o is what F does if executed.  *)
(***************************************************************************)
SyncCall(w, A, o) ==
    /\ wrapped[w] # NoFunc
    /\ ~coro[w]
    /\ ncalls < MaxCalls
    /\ ncalls' = ncalls + 1
    /\ LET e == Encode(A)
           m == MemoOf(w)
       IN /\ seen' = [seen EXCEPT ![w] = @ \cup {e.key}]
          /\ IF Hit(memo[m], e)
             THEN /\ ret' = Deliver("hit", w, A, Returns(Lookup(memo[m], e.key)))
                  /\ UNCHANGED <<memo, warnings, execs, failed, storer>>
             ELSE /\ warnings' = [warnings EXCEPT ![w] = Warn(@, e)]
                  /\ execs' = [execs EXCEPT ![w][e.key] = @ + 1]
                  /\ memo' = [memo EXCEPT ![m] = Finish(@, e.key, e.ok, o)]
                  /\ failed' = [failed EXCEPT ![w] = @ \/ ~o.ok]
                  /\ ret' = Deliver(Kind(e.ok), w, A, o)
                  /\ storer' = NoteStore(w, A, e.key, e.ok, o)
    /\ UNCHANGED <<wrapped, coro, frames>>
    /\ UNCHANGED <<versionVars, quietVars, dmgVars>>

(***************************************************************************)
(* The asynchronous wrapper, lines 415-429.  Calling it makes a coroutine  *)
(* object; its body runs once the coroutine is awaited, up to the await of *)
(* line 426, and from there once F has finished.                           *)
(***************************************************************************)
AsyncInvoke(w, A) ==
    /\ wrapped[w] # NoFunc
    /\ coro[w]
    /\ ncalls < MaxCalls
    /\ BagCardinality(frames) < MaxTasks
    /\ ncalls' = ncalls + 1
    /\ frames' = frames (+) One(Frame(w, A))
    /\ UNCHANGED <<wrapped, coro, memo, warnings, ret, execs, seen, failed, storer>>
    /\ UNCHANGED <<versionVars, quietVars, dmgVars>>

\* lines 417-426: key derivation, lookup, and the start of F
AsyncStart(f) ==
    /\ f.pc = "created"
    /\ LET w == f.w
           e == Encode(f.A)
           m == MemoOf(w)
       IN /\ seen' = [seen EXCEPT ![w] = @ \cup {e.key}]
          /\ IF Hit(memo[m], e)
             THEN /\ ret' = Deliver("hit", w, f.A, Returns(Lookup(memo[m], e.key)))
                  /\ frames' = frames (-) One(f)
                  /\ UNCHANGED <<warnings, execs>>
             ELSE /\ warnings' = [warnings EXCEPT ![w] = Warn(@, e)]
                  /\ execs' = [execs EXCEPT ![w][e.key] = @ + 1]
                  /\ frames' = (frames (-) One(f)) (+)
                        One([f EXCEPT !.pc = "await", !.key = e.key, !.save = e.ok])
                  /\ UNCHANGED ret
    /\ UNCHANGED <<wrapped, coro, memo, ncalls, failed, storer>>
    /\ UNCHANGED <<versionVars, quietVars, dmgVars>>

\* lines 426-429: F finished with o; store and return, or propagate
AsyncResume(f, o) ==
    /\ f.pc = "await"
    /\ memo' = [memo EXCEPT ![MemoOf(f.w)] = Finish(@, f.key, f.save, o)]
    /\ failed' = [failed EXCEPT ![f.w] = @ \/ ~o.ok]
    /\ ret' = Deliver(Kind(f.save), f.w, f.A, o)
    /\ storer' = NoteStore(f.w, f.A, f.key, f.save, o)
    /\ frames' = frames (-) One(f)
    /\ UNCHANGED <<wrapped, coro, warnings, ncalls, execs, seen>>
    /\ UNCHANGED <<versionVars, quietVars, dmgVars>>

\* The cancellation gone wrong: the wrapper catches it and stores None.
AsyncCancelStores(f) ==
    /\ f.pc = "await"
    /\ memo' = [memo EXCEPT ![MemoOf(f.w)] = Store(@, f.key, f.save, "None")]
    /\ failed' = [failed EXCEPT ![f.w] = TRUE]
    /\ ret' = Deliver(Kind(f.save), f.w, f.A, Cancelled)
    /\ frames' = frames (-) One(f)
    /\ UNCHANGED <<wrapped, coro, warnings, ncalls, execs, seen, storer>>
    /\ UNCHANGED <<versionVars, quietVars, dmgVars>>

\* line 426: the task is cancelled while it awaits F
AsyncCancel(f) ==
    /\ f.pc = "await"
    /\ failed' = [failed EXCEPT ![f.w] = TRUE]
    /\ ret' = Deliver(Kind(f.save), f.w, f.A, Cancelled)
    /\ frames' = frames (-) One(f)
    /\ UNCHANGED <<wrapped, coro, memo, warnings, ncalls, execs, seen, storer>>
    /\ UNCHANGED <<versionVars, quietVars, dmgVars>>

Next ==
    \/ \E w \in Wrappers, f \in Funcs : Cache(w, f)
    \/ \E w \in Wrappers, A \in ArgSets, o \in Outcomes : SyncCall(w, A, o)
    \/ \E w \in Wrappers, A \in ArgSets : AsyncInvoke(w, A)
    \/ \E f \in BagToSet(frames) : AsyncStart(f)
    \/ \E f \in BagToSet(frames), o \in Outcomes : AsyncResume(f, o)
    \/ \E f \in BagToSet(frames) : AsyncCancel(f)

Spec == Init /\ [][Next]_vars

(***************************************************************************)
(* Vocabulary of the properties.                                           *)
(***************************************************************************)
KeyOf(A) == Encode(A).key
Wrapped(w) == wrapped[w] # NoFunc

\* This step is one whole call of a synchronous wrapper; ret' describes it.
SyncCalled == ncalls' = ncalls + 1 /\ frames' = frames

\* This step runs lines 417-426 of the coroutine with frame f.
Started(f) == f.pc = "created" /\ CopiesIn(f, frames') < CopiesIn(f, frames)

\* A call handed its result or its exception to its caller in this step.
Returned == SyncCalled \/ BagCardinality(frames') < BagCardinality(frames)

(***************************************************************************)
(* C1.  For a synchronous wrapper in whose calls F never raised, F has     *)
(* been executed exactly once for every call key that appeared in a call   *)
(* and never for any other key: the first call with a key executes F and   *)
(* the later calls with that key do not.                                   *)
(***************************************************************************)
C1_OncePerKey ==
    \A w \in Wrappers :
        (Wrapped(w) /\ ~coro[w] /\ ~failed[w]) =>
            \A k \in Keys : execs[w][k] = IF k \in seen[w] THEN 1 ELSE 0

\* The second of two identical calls has returned from the memo table.
C1_Witness ==
    /\ ret.kind = "hit" /\ ret.via = "return"
    /\ ~failed[ret.w]
    /\ execs[ret.w][KeyOf(ret.A)] = 1

(***************************************************************************)
(* C2.  A call that is a hit returns the value stored under its key, runs  *)
(* F not at all and leaves the memo table, the log and the executions of F *)
(* as they were; and a value enters the memo table only in the step in     *)
(* which a miss returns that value as the result of F.                     *)
(***************************************************************************)
C2_HitReturnsStored ==
    [][/\ (Returned /\ ret'.kind = "hit") =>
            /\ KeyOf(ret'.A) \in DOMAIN memo[ret'.w]
            /\ ret'.out = Returns(memo[ret'.w][KeyOf(ret'.A)])
            /\ memo' = memo /\ execs' = execs /\ warnings' = warnings
       /\ \A w \in Wrappers : \A k \in DOMAIN memo'[w] :
            (k \notin DOMAIN memo[w] \/ memo'[w][k] # memo[w][k]) =>
                /\ Returned /\ ret'.kind = "miss" /\ ret'.w = w
                /\ KeyOf(ret'.A) = k
                /\ ret'.out = Returns(memo'[w][k])
      ]_vars

\* A hit while the table holds two entries with different values.
C2_Witness ==
    /\ ret.kind = "hit"
    /\ \E j, k \in DOMAIN memo[ret.w] : memo[ret.w][j] # memo[ret.w][k]

(***************************************************************************)
(* C3.  A hit for arguments A returns an entry that a call with arguments  *)
(* structurally equal to A stored: an entry stored for A1 is never         *)
(* returned for an A2 that is not structurally equal to A1.                *)
(***************************************************************************)
C3_NoForeignEntry ==
    [][(Returned /\ ret'.kind = "hit") =>
          StructEq(storer[ret'.w][KeyOf(ret'.A)], ret'.A)]_vars

(***************************************************************************)
(* C4.  A call whose key derivation fails never hits and never changes the *)
(* memo table, which holds no entry under the missing key; it executes F   *)
(* (every such call does, a repetition included) and hands F's own result  *)
(* or exception to the caller.                                             *)
(***************************************************************************)
C4_BypassRunsF ==
    [][/\ (SyncCalled /\ ~Encode(ret'.A).ok) =>
            /\ ret'.kind = "bypass"
            /\ ret'.out \in Outcomes
            /\ execs'[ret'.w][NoKey] = execs[ret'.w][NoKey] + 1
            /\ memo' = memo
       /\ \A f \in BagToSet(frames) : (Started(f) /\ ~Encode(f.A).ok) =>
            /\ ~Returned
            /\ execs'[f.w][NoKey] = execs[f.w][NoKey] + 1
            /\ memo' = memo
       /\ (Returned /\ ~Encode(ret'.A).ok) =>
            /\ ret'.kind = "bypass"
            /\ ret'.out \in Outcomes \cup {Cancelled}
            /\ memo' = memo
       /\ \A w \in Wrappers : NoKey \notin DOMAIN memo'[w]
      ]_vars

\* The same unserializable call was made twice and F ran both times.
C4_Witness ==
    /\ ret.kind = "bypass" /\ ret.out.ok
    /\ execs[ret.w][NoKey] = 2
    /\ memo[ret.w] = <<>>

(***************************************************************************)
(* C5, as claimed.  When a call hands F's exception to its caller, the     *)
(* memo table is unchanged and holds no entry for the call's key, so that  *)
(* the next identical call executes F again; for both wrappers.            *)
(***************************************************************************)
C5_RaiseLeavesKeyAbsent ==
    [][(Returned /\ ret'.out = Raises("TypeError")) =>
          /\ memo' = memo
          /\ KeyOf(ret'.A) \notin DOMAIN memo'[ret'.w]]_vars

(***************************************************************************)
(* C5, amended.  When a call hands F's exception to its caller, that call  *)
(* leaves the memo table unchanged.  The table then holds no entry for the *)
(* call's key, unless the wrapper is the asynchronous one and another call *)
(* with that key, which executed F as well, stored its result meanwhile.   *)
(***************************************************************************)
C5_RaiseStoresNothing ==
    [][(Returned /\ ret'.out = Raises("TypeError")) =>
          /\ memo' = memo
          /\ storer' = storer
          /\ KeyOf(ret'.A) \in DOMAIN memo'[ret'.w] =>
                coro[ret'.w] /\ execs[ret'.w][KeyOf(ret'.A)] >= 2]_vars

\* F raised twice in a row for the same serializable arguments.
C5_Witness ==
    /\ ret.out = Raises("TypeError") /\ ret.kind = "miss"
    /\ execs[ret.w][KeyOf(ret.A)] = 2
    /\ KeyOf(ret.A) \notin DOMAIN memo[ret.w]

(***************************************************************************)
(* C6.  Of a wrapper that has bypassed the cache: a bypassing call leaves  *)
(* the memo table as it was; a call whose key is stored is a hit and does  *)
(* not execute F; and a miss with a derived key stores the value it        *)
(* returns.                                                                *)
(***************************************************************************)
C6_BypassIsPerCall ==
    [][\A w \in Wrappers : warnings'[w] > 0 =>
          /\ (Returned /\ ret'.w = w /\ ret'.kind = "bypass") => memo' = memo
          /\ (SyncCalled /\ ret'.w = w /\ KeyOf(ret'.A) \in DOMAIN memo[w]) =>
                ret'.kind = "hit" /\ execs' = execs
          /\ \A f \in BagToSet(frames) :
                (Started(f) /\ f.w = w /\ KeyOf(f.A) \in DOMAIN memo[w]) =>
                    Returned /\ ret'.kind = "hit" /\ execs' = execs
          /\ (Returned /\ ret'.w = w /\ ret'.kind = "miss" /\ ret'.out.ok) =>
                /\ KeyOf(ret'.A) \in DOMAIN memo'[w]
                /\ memo'[w][KeyOf(ret'.A)] = ret'.out.v
      ]_vars

\* After a bypassing call, a key stored before it is hit.
C6_Witness ==
    /\ ret.kind = "hit"
    /\ warnings[ret.w] > 0
    /\ execs[ret.w][KeyOf(ret.A)] = 1

(***************************************************************************)
(* C7.  When a coroutine of the asynchronous wrapper starts and the latest *)
(* finished call is a call of the same wrapper with the same serializable  *)
(* arguments that returned a value, the coroutine is a hit: it does not    *)
(* execute F and returns that same value.                                  *)
(***************************************************************************)
C7_AsyncSecondCallHits ==
    [][\A f \in BagToSet(frames) :
          (/\ Started(f)
           /\ ret.kind \in {"hit", "miss"} /\ ret.out.ok
           /\ ret.w = f.w /\ ret.A = f.A) =>
              /\ Returned
              /\ ret' = [ret EXCEPT !.kind = "hit"]
              /\ ret'.via = "await"
              /\ execs' = execs
      ]_vars

\* Two awaited calls, one execution of F.
C7_Witness ==
    /\ ret.kind = "hit" /\ ret.via = "await"
    /\ ncalls = 2 /\ frames = EmptyBag
    /\ execs[ret.w][KeyOf(ret.A)] = 1

(***************************************************************************)
(* C8.  The func and the coro of a wrapper never change once cache() has   *)
(* made it, coro is whether the func is asynchronous, and every call       *)
(* returns the way coro says: through an await (hits too) when the func is *)
(* asynchronous, directly when it is not.  Only calls of asynchronous      *)
(* funcs are coroutines.                                                   *)
(***************************************************************************)
C8_ConventionFixed ==
    [][/\ \A w \in Wrappers :
            /\ Wrapped(w) => wrapped'[w] = wrapped[w] /\ coro'[w] = coro[w]
            /\ wrapped'[w] # NoFunc => coro'[w] = wrapped'[w].async
       /\ Returned =>
            ret'.via = IF wrapped[ret'.w].async THEN "await" ELSE "return"
       /\ \A f \in BagToSet(frames') : wrapped[f.w].async
      ]_vars

\* A hit of an asynchronous wrapper, delivered through the await.
C8_Witness ==
    /\ ret.kind = "hit" /\ ret.via = "await"
    /\ wrapped[ret.w].async
    /\ \E w \in Wrappers : Wrapped(w) /\ ~wrapped[w].async

(***************************************************************************)
(* C9.  A call whose arguments are structurally equal to the arguments of  *)
(* a call that stored its result is a hit.                                 *)
(***************************************************************************)
C9_EqualArgsHit ==
    [][/\ (/\ SyncCalled
           /\ \E k \in DOMAIN storer[ret'.w] : StructEq(storer[ret'.w][k], ret'.A))
          => ret'.kind = "hit"
       /\ \A f \in BagToSet(frames) :
            (/\ Started(f)
             /\ \E k \in DOMAIN storer[f.w] : StructEq(storer[f.w][k], f.A))
            => Returned /\ ret'.kind = "hit"
      ]_vars

(***************************************************************************)
(* C10.  The memo table of a wrapper changes only in a step in which a     *)
(* call of that wrapper returns; a hit returns an entry of the wrapper's   *)
(* own table; and the first call of a wrapper with a key executes F,       *)
(* whatever the tables of the other wrappers hold.                         *)
(***************************************************************************)
C10_OwnTable ==
    [][/\ \A w \in Wrappers : memo'[w] # memo[w] => Returned /\ ret'.w = w
       /\ (Returned /\ ret'.kind = "hit") =>
            /\ KeyOf(ret'.A) \in DOMAIN memo[ret'.w]
            /\ ret'.out = Returns(memo[ret'.w][KeyOf(ret'.A)])
       /\ (SyncCalled /\ KeyOf(ret'.A) \notin seen[ret'.w]) =>
            /\ ret'.kind # "hit"
            /\ execs'[ret'.w][KeyOf(ret'.A)] = execs[ret'.w][KeyOf(ret'.A)] + 1
       /\ \A f \in BagToSet(frames) :
            (Started(f) /\ KeyOf(f.A) \notin seen[f.w]) =>
                /\ ~Returned
                /\ execs'[f.w][KeyOf(f.A)] = execs[f.w][KeyOf(f.A)] + 1
      ]_vars

\* Two wrappings of the same func, each with its own entry for the same key.
C10_Witness ==
    /\ wrapped["w1"] = wrapped["w2"] /\ Wrapped("w1")
    /\ \E k \in Keys :
          /\ k \in DOMAIN memo["w1"] /\ k \in DOMAIN memo["w2"]
          /\ execs["w1"][k] = 1 /\ execs["w2"][k] = 1
          /\ memo["w1"][k] # memo["w2"][k]

\* This step resumes the suspended coroutine with frame f, or cancels it.
Resumed(f) == f.pc = "await" /\ CopiesIn(f, frames') < CopiesIn(f, frames)

\* The frame of the coroutine with frame f once it is suspended at line 426.
Suspended(f) == [f EXCEPT !.pc = "await", !.key = KeyOf(f.A), !.save = Encode(f.A).ok]

(***************************************************************************)
(* C11.  No step removes a key from a memo table, whatever the call (hit,  *)
(* miss, bypass, raise, cancellation); and a call whose key is stored is a *)
(* hit.                                                                    *)
(***************************************************************************)
C11_NeverEvicted ==
    [][/\ \A w \in Wrappers : DOMAIN memo[w] \subseteq DOMAIN memo'[w]
       /\ (SyncCalled /\ KeyOf(ret'.A) \in DOMAIN memo[ret'.w]) => ret'.kind = "hit"
       /\ \A f \in BagToSet(frames) :
            (Started(f) /\ KeyOf(f.A) \in DOMAIN memo[f.w]) =>
                Returned /\ ret'.kind = "hit"
      ]_vars

\* A table with two entries, after a call in which F raised.
C11_Witness ==
    \E w \in Wrappers : Cardinality(DOMAIN memo[w]) = 2 /\ ~ret.out.ok /\ ret.w = w

(***************************************************************************)
(* C12.  A coroutine of the asynchronous wrapper that starts with a        *)
(* derived key executes F exactly when the key is not stored at that       *)
(* moment, also while an identical call is suspended in F; so two calls    *)
(* with the same key can both be executing F (the witness), and a call     *)
(* that starts after the key was stored does not execute F.                *)
(***************************************************************************)
C12_NoDeduplication ==
    [][\A f \in BagToSet(frames) : (Started(f) /\ Encode(f.A).ok) =>
          IF KeyOf(f.A) \in DOMAIN memo[f.w]
          THEN Returned /\ ret'.kind = "hit" /\ execs' = execs
          ELSE /\ ~Returned
               /\ execs'[f.w][KeyOf(f.A)] = execs[f.w][KeyOf(f.A)] + 1
               /\ CopiesIn(Suspended(f), frames') = CopiesIn(Suspended(f), frames) + 1
      ]_vars

\* Two identical calls are suspended in F at the same time.
C12_Witness ==
    \E f \in BagToSet(frames) :
        /\ f.pc = "await" /\ f.save /\ CopiesIn(f, frames) = 2
        /\ execs[f.w][f.key] = 2 /\ ~failed[f.w]

(***************************************************************************)
(* C13, as claimed.  Every call of the asynchronous wrapper suspends       *)
(* exactly once: whenever such a call returns, it returns from its         *)
(* suspension at the await of F.                                           *)
(***************************************************************************)
C13_EveryCallSuspendsOnce ==
    [][(Returned /\ ret'.via = "await") =>
          \E f \in BagToSet(frames) : Resumed(f)]_vars

(***************************************************************************)
(* C13, amended.  A call of the asynchronous wrapper that is a hit returns *)
(* in the step that derives its key and looks it up, without suspending.   *)
(* Every other call suspends once, at the await of F: the step that        *)
(* derives the key and finds it missing (or fails to derive it) changes no *)
(* memo table and leaves the call suspended, and the next step of the call *)
(* stores and returns, or raises, at once.                                 *)
(***************************************************************************)
C13_SuspendsOnceUnlessHit ==
    [][/\ \A f \in BagToSet(frames') : f.pc \in {"created", "await"}
       /\ \A f \in BagToSet(frames) : Started(f) =>
            /\ memo' = memo
            /\ IF Encode(f.A).ok /\ KeyOf(f.A) \in DOMAIN memo[f.w]
               THEN /\ Returned /\ ret'.kind = "hit"
                    /\ BagCardinality(frames') = BagCardinality(frames) - 1
               ELSE /\ ~Returned /\ ret' = ret
                    /\ CopiesIn(Suspended(f), frames') =
                           CopiesIn(Suspended(f), frames) + 1
       /\ \A f \in BagToSet(frames) : Resumed(f) =>
            /\ Returned /\ ret'.kind # "hit" /\ ret'.w = f.w /\ ret'.A = f.A
            /\ BagCardinality(frames') = BagCardinality(frames) - 1
            /\ (ret'.out.ok /\ f.save) =>
                  /\ f.key \in DOMAIN memo'[f.w]
                  /\ memo'[f.w][f.key] = ret'.out.v
       /\ (Returned /\ ret'.via = "await") =>
            IF ret'.kind = "hit"
            THEN \E f \in BagToSet(frames) : Started(f)
            ELSE \E f \in BagToSet(frames) : Resumed(f)
      ]_vars

\* A hit of the asynchronous wrapper: no coroutine is, or was, suspended.
C13_Witness ==
    /\ ret.kind = "hit" /\ ret.via = "await"
    /\ frames = EmptyBag /\ ncalls = 2

(***************************************************************************)
(* C14.  The step in which a suspended call is cancelled changes no memo   *)
(* table; the table then holds the call's key only if another call with    *)
(* that key executed F and stored it.                                      *)
(***************************************************************************)
C14_CancelStoresNothing ==
    [][(Returned /\ ret'.out = Cancelled) =>
          /\ memo' = memo
          /\ storer' = storer
          /\ KeyOf(ret'.A) \in DOMAIN memo'[ret'.w] =>
                execs[ret'.w][KeyOf(ret'.A)] >= 2]_vars

\* A cancelled call with a derived key, and no entry for the key.
C14_Witness ==
    /\ ret.out = Cancelled /\ ret.kind = "miss"
    /\ KeyOf(ret.A) \notin DOMAIN memo[ret.w]

(***************************************************************************)
(* C15.  The log of a wrapper gains one warning in exactly the steps in    *)
(* which a call whose key derivation failed starts to execute F, and       *)
(* none in any other step; so the warnings always number the bypassing     *)
(* calls.                                                                  *)
(***************************************************************************)
BypassBegins(w) ==
    \/ SyncCalled /\ ret'.w = w /\ ~Encode(ret'.A).ok
    \/ \E f \in BagToSet(frames) : Started(f) /\ f.w = w /\ ~Encode(f.A).ok

C15_OneWarningPerBypass ==
    [][\A w \in Wrappers :
          /\ warnings'[w] = warnings[w] + (IF BypassBegins(w) THEN 1 ELSE 0)
          /\ execs'[w][NoKey] = execs[w][NoKey] + (IF BypassBegins(w) THEN 1 ELSE 0)
          /\ warnings[w] = execs[w][NoKey]
      ]_vars

\* Two bypassing calls and a call with a derived key: two warnings.
C15_Witness ==
    \E w \in Wrappers :
        /\ warnings[w] = 2 /\ ncalls = 3 /\ frames = EmptyBag
        /\ seen[w] # {NoKey} /\ seen[IF w = "w1" THEN "w2" ELSE "w1"] = {}

(***************************************************************************)
(* C16.  A miss with a derived key whose result is None stores None, and a *)
(* call whose key is stored with the value None is a hit that returns None *)
(* without executing F.                                                    *)
(***************************************************************************)
C16_FalsyIsCached ==
    [][/\ (Returned /\ ret'.kind = "miss" /\ ret'.out = Returns("None")) =>
            /\ KeyOf(ret'.A) \in DOMAIN memo'[ret'.w]
            /\ memo'[ret'.w][KeyOf(ret'.A)] = "None"
       /\ (/\ SyncCalled
           /\ KeyOf(ret'.A) \in DOMAIN memo[ret'.w]
           /\ memo[ret'.w][KeyOf(ret'.A)] = "None") =>
            ret' = Deliver("hit", ret'.w, ret'.A, Returns("None")) /\ execs' = execs
       /\ \A f \in BagToSet(frames) :
            (/\ Started(f)
             /\ KeyOf(f.A) \in DOMAIN memo[f.w]
             /\ memo[f.w][KeyOf(f.A)] = "None") =>
                /\ Returned
                /\ ret' = Deliver("hit", f.w, f.A, Returns("None"))
                /\ execs' = execs
      ]_vars

\* A hit that returned a stored None.
C16_Witness ==
    /\ ret.kind = "hit" /\ ret.out = Returns("None")
    /\ execs[ret.w][KeyOf(ret.A)] = 1

(***************************************************************************)
(* C17, as claimed.  A value held under a key of a memo table is never     *)
(* replaced.                                                               *)
(***************************************************************************)
C17_NeverReplaced ==
    [][\A w \in Wrappers : \A k \in DOMAIN memo[w] :
          k \in DOMAIN memo'[w] /\ memo'[w][k] = memo[w][k]]_vars

(***************************************************************************)
(* C17, amended.  A value held under a key is never replaced in the table  *)
(* of a synchronous wrapper.  In the table of an asynchronous wrapper it   *)
(* is replaced only by a call with that key that was already suspended in  *)
(* F, which stores and returns its own result; every hit returns the value *)
(* the table holds when the hit looks the key up.                          *)
(***************************************************************************)
C17_ReplacedOnlyByInFlight ==
    [][/\ \A w \in Wrappers : \A k \in DOMAIN memo[w] :
            /\ k \in DOMAIN memo'[w]
            /\ memo'[w][k] # memo[w][k] =>
                  /\ coro[w]
                  /\ \E f \in BagToSet(frames) :
                        Resumed(f) /\ f.w = w /\ f.key = k /\ f.save
                  /\ ret'.kind = "miss" /\ ret'.out = Returns(memo'[w][k])
       /\ (Returned /\ ret'.kind = "hit") =>
            ret'.out = Returns(memo[ret'.w][KeyOf(ret'.A)])
      ]_vars

\* The second of two identical calls in flight replaced the first's value.
C17_Witness ==
    /\ ret.kind = "miss" /\ ret.out.ok /\ ret.via = "await"
    /\ execs[ret.w][KeyOf(ret.A)] = 2 /\ ~failed[ret.w]
    /\ frames = EmptyBag /\ ncalls = 2
    /\ memo[ret.w][KeyOf(ret.A)] = "r1"

(***************************************************************************)
(* python_version() (lines 1017-1047).  A str is the sequence of its       *)
(* characters.                                                             *)
(***************************************************************************)
EnvNames == {"PYTHON_VERSION", "PYTHON_REQUIRES"}

\* Values of the two variables: "", 3.10, 3.12-dev, 3.12.0b4, 3.9.1, 3.11.2.1
EnvValues ==
    { <<>>,
      <<"3", ".", "1", "0">>,
      <<"3", ".", "1", "2", "-", "d", "e", "v">>,
      <<"3", ".", "1", "2", ".", "0", "b", "4">>,
      <<"3", ".", "9", ".", "1">>,
      <<"3", ".", "1", "1", ".", "2", ".", "1">> }

\* platform.python_version(): 3.12.1, 3.13.0rc1
Interpreters ==
    { <<"3", ".", "1", "2", ".", "1">>,
      <<"3", ".", "1", "3", ".", "0", "r", "c", "1">> }

\* os.environ.get(name, default)
EnvironGet(env, name, default) ==
    IF name \in DOMAIN env THEN env[name] ELSE default

\* a or b, of two str: the empty str is false
Or(a, b) == IF a = <<>> THEN b ELSE a

\* str.split(sep), sep one character
RECURSIVE Split(_, _)
Split(str, sep) ==
    IF \E i \in 1..Len(str) : str[i] = sep
    THEN LET i == CHOOSE i \in 1..Len(str) :
                     str[i] = sep /\ \A j \in 1..(i - 1) : str[j] # sep
         IN  <<SubSeq(str, 1, i - 1)>> \o Split(SubSeq(str, i + 1, Len(str)), sep)
    ELSE <<str>>

\* str.rpartition(sep), sep one character
RPartition(str, sep) ==
    IF \E i \in 1..Len(str) : str[i] = sep
    THEN LET i == CHOOSE i \in 1..Len(str) :
                     str[i] = sep /\ \A j \in (i + 1)..Len(str) : str[j] # sep
         IN  <<SubSeq(str, 1, i - 1), <<sep>>, SubSeq(str, i + 1, Len(str))>>
    ELSE << <<>>, <<>>, str >>

\* lines 1043-1047
python_version(env, p) ==
    LET ver == Or(EnvironGet(env, "PYTHON_VERSION", p),
                  EnvironGet(env, "PYTHON_REQUIRES", p))
    IN  IF Len(Split(ver, ".")) = 3 THEN RPartition(ver, ".")[1] ELSE ver

\* The process starts with any of the environments and interpreters.
InitVersion ==
    /\ CacheIdle /\ QuietIdle /\ DmgIdle
    /\ environ \in UNION {[D -> EnvValues] : D \in SUBSET EnvNames}
    /\ interpreter \in Interpreters
    /\ pv_ret = [done |-> FALSE, value |-> <<>>]

\* a call of python_version()
CallPythonVersion ==
    /\ ~pv_ret.done
    /\ pv_ret' = [done |-> TRUE, value |-> python_version(environ, interpreter)]
    /\ UNCHANGED <<environ, interpreter>>
    /\ UNCHANGED <<cacheVars, quietVars, dmgVars>>

NextVersion == CallPythonVersion

SpecVersion == InitVersion /\ [][NextVersion]_vars

\* A value with exactly three dot-separated parts cut to its first two.
Cut(str) ==
    LET parts == Split(str, ".")
    IN  IF Len(parts) = 3 THEN parts[1] \o <<".">> \o parts[2] ELSE str

(***************************************************************************)
(* C18.  python_version() returns the cut value of PYTHON_VERSION when it  *)
(* is set (to a non-empty value), else of PYTHON_REQUIRES when that is set *)
(* (to a non-empty value), else of the interpreter's version.              *)
(***************************************************************************)
C18_Precedence ==
    pv_ret.done =>
        LET hasV == "PYTHON_VERSION" \in DOMAIN environ
            hasR == "PYTHON_REQUIRES" \in DOMAIN environ
        IN  /\ (hasV /\ environ["PYTHON_VERSION"] # <<>>) =>
                  pv_ret.value = Cut(environ["PYTHON_VERSION"])
            /\ (~hasV /\ hasR /\ environ["PYTHON_REQUIRES"] # <<>>) =>
                  pv_ret.value = Cut(environ["PYTHON_REQUIRES"])
            /\ (~hasV /\ ~hasR) => pv_ret.value = Cut(interpreter)

(***************************************************************************)
(* stdquiet() (lines 1147-1167), a generator-based context manager.  The   *)
(* body of its block is the caller's: it may write to the streams, close   *)
(* the streams it was given, enter another block, end or raise.            *)
(***************************************************************************)
MaxBlocks == 3      \* stdquiet() blocks entered in a run
MaxWrites == 1      \* characters written to one stream

\* The number of stdquiet() blocks entered so far.
Entered == Cardinality(DOMAIN streams) \div 2

\* The innermost block.
Top == blocks[Len(blocks)]

\* io.StringIO()
Fresh == [closed |-> FALSE, pos |-> 0]

\* stream.seek(0): ValueError on a closed stream
CanSeek(stream) == ~streams[stream].closed

\* lines 1155-1160: with stdquiet() as (out, err), up to the yield
QuietEnter ==
    /\ Entered < MaxBlocks
    /\ LET new_stdout == StringIO(2 * Entered + 1)
           new_stderr == StringIO(2 * Entered + 2)
       IN  /\ blocks' = Append(blocks, [old_stdout |-> sys_stdout,
                                        old_stderr |-> sys_stderr,
                                        new_stdout |-> new_stdout,
                                        new_stderr |-> new_stderr])
           /\ sys_stdout' = new_stdout
           /\ sys_stderr' = new_stderr
           /\ streams' = [x \in DOMAIN streams \cup {new_stdout, new_stderr} |->
                            IF x \in DOMAIN streams THEN streams[x] ELSE Fresh]
    /\ UNCHANGED sq_exit
    /\ UNCHANGED <<cacheVars, versionVars, dmgVars>>

\* the body of the block writes a character to sys.stdout or to sys.stderr
QuietWrite(stream) ==
    /\ blocks # <<>>
    /\ stream \in DOMAIN streams
    /\ ~streams[stream].closed
    /\ streams[stream].pos < MaxWrites
    /\ streams' = [streams EXCEPT ![stream].pos = @ + 1]
    /\ UNCHANGED <<sys_stdout, sys_stderr, blocks, sq_exit>>
    /\ UNCHANGED <<cacheVars, versionVars, dmgVars>>

\* the body of the block closes a stream it was given
QuietClose(stream) ==
    /\ blocks # <<>>
    /\ stream \in {Top.new_stdout, Top.new_stderr}
    /\ ~streams[stream].closed
    /\ streams' = [streams EXCEPT ![stream].closed = TRUE]
    /\ UNCHANGED <<sys_stdout, sys_stderr, blocks, sq_exit>>
    /\ UNCHANGED <<cacheVars, versionVars, dmgVars>>

\* lines 1161-1167: the body of the innermost block ends, or raises: finally
QuietExit(raised) ==
    /\ blocks # <<>>
    /\ blocks' = SubSeq(blocks, 1, Len(blocks) - 1)
    /\ IF ~CanSeek(Top.new_stdout)
       THEN /\ sq_exit' = "ValueError"
            /\ UNCHANGED <<sys_stdout, sys_stderr, streams>>
       ELSE IF ~CanSeek(Top.new_stderr)
       THEN /\ sq_exit' = "ValueError"
            /\ streams' = [streams EXCEPT ![Top.new_stdout].pos = 0]
            /\ UNCHANGED <<sys_stdout, sys_stderr>>
       ELSE /\ sq_exit' = IF raised THEN "raised" ELSE "returned"
            /\ streams' = [streams EXCEPT ![Top.new_stdout].pos = 0,
                                          ![Top.new_stderr].pos = 0]
            /\ sys_stdout' = Top.old_stdout
            /\ sys_stderr' = Top.old_stderr
    /\ UNCHANGED <<cacheVars, versionVars, dmgVars>>

NextQuiet ==
    \/ QuietEnter
    \/ \E stream \in {sys_stdout, sys_stderr} : QuietWrite(stream)
    \/ \E stream \in DOMAIN streams : QuietClose(stream)
    \/ \E raised \in BOOLEAN : QuietExit(raised)

SpecQuiet == Init /\ [][NextQuiet]_vars

(***************************************************************************)
(* C19.  Entering a stdquiet() block installs two new streams as           *)
(* sys.stdout and sys.stderr, no step inside the block changes them, and   *)
(* leaving the block, normally or by an exception, nested or not,          *)
(* reinstalls the two streams that were installed when it was entered.     *)
(***************************************************************************)
C19_RestoresStreams ==
    [][/\ Len(blocks') > Len(blocks) =>
            /\ sys_stdout' \notin {sys_stdout, sys_stderr}
            /\ sys_stderr' \notin {sys_stdout, sys_stderr, sys_stdout'}
       /\ Len(blocks') = Len(blocks) =>
            sys_stdout' = sys_stdout /\ sys_stderr' = sys_stderr
       /\ Len(blocks') < Len(blocks) =>
            /\ sys_stdout' = Top.old_stdout
            /\ sys_stderr' = Top.old_stderr
      ]_vars

(***************************************************************************)
(* dmg() (lines 494-515) and aiodmg() (lines 164-185): the same statements,*)
(* the commands run by cmd() in the one and awaited from aiocmd() in the   *)
(* other.  functions.py neither defines nor imports cmd and aiocmd: they   *)
(* are whatever the module's globals hold when the run reaches the call,   *)
(* so every outcome of a call is possible.                                 *)
(***************************************************************************)
MaxItems == 2       \* items of the directory src

\* Names of items: a.app, b.txt, app
ItemNames ==
    { <<"a", ".", "a", "p", "p">>,
      <<"b", ".", "t", "x", "t">>,
      <<"a", "p", "p">> }

\* str.endswith(suffix)
EndsWith(str, suffix) ==
    /\ Len(str) >= Len(suffix)
    /\ SubSeq(str, Len(str) - Len(suffix) + 1, Len(str)) = suffix

\* src: a str, a Path of a regular file, a Path of a directory and its items
Sources ==
    {[kind |-> k, items |-> <<>>] : k \in {"str", "file"}} \cup
    {[kind |-> "dir", items |-> items] :
        items \in UNION {[1..n -> ItemNames] : n \in 0..MaxItems}}

\* A call of cmd() or aiocmd(): the command ran and succeeded, it ran and
\* failed and the call returned all the same, or the call raised.
CmdOutcomes == {"ok", "failed", "raised"}

\* cmd(name, ...), or await aiocmd(name, ...), then the statement `next`
Cmd(name, o, next) ==
    /\ commands' = Append(commands, <<name, o>>)
    /\ dmg_pc' = IF o = "raised" THEN "raised" ELSE next

\* A run of dmg() or of aiodmg() begins: with TempDir() as tmpdir
DmgCall(fn, src) ==
    /\ dmg_pc = "idle"
    /\ dmg_src' = [fn |-> fn, kind |-> src.kind, items |-> src.items]
    /\ dmg_pc' = "attach"
    /\ UNCHANGED <<dmg_item, mounted, commands>>
    /\ UNCHANGED <<cacheVars, versionVars, quietVars>>

\* lines 509, 179: hdiutil attach -mountpoint tmpdir
DmgAttach(o) ==
    /\ dmg_pc = "attach"
    /\ Cmd("attach", o, "iterdir")
    /\ mounted' = (o = "ok")
    /\ UNCHANGED <<dmg_src, dmg_item>>
    /\ UNCHANGED <<cacheVars, versionVars, quietVars>>

\* lines 510, 180: for item in src.iterdir(); a str has no iterdir and a
\* regular file is no directory
DmgIterdir ==
    /\ dmg_pc = "iterdir"
    /\ dmg_pc' = IF dmg_src.kind = "dir" THEN "for" ELSE "raised"
    /\ dmg_item' = 1
    /\ UNCHANGED <<dmg_src, mounted, commands>>
    /\ UNCHANGED <<cacheVars, versionVars, quietVars>>

\* lines 510-511, 180-181: the next item, if item.name.endswith(".app")
DmgItem ==
    /\ dmg_pc = "for"
    /\ IF dmg_item > Len(dmg_src.items)
       THEN dmg_pc' = "returned" /\ UNCHANGED dmg_item
       ELSE IF EndsWith(dmg_src.items[dmg_item], <<".", "a", "p", "p">>)
       THEN dmg_pc' = "cp" /\ UNCHANGED dmg_item
       ELSE dmg_pc' = "for" /\ dmg_item' = dmg_item + 1
    /\ UNCHANGED <<dmg_src, mounted, commands>>
    /\ UNCHANGED <<cacheVars, versionVars, quietVars>>

\* lines 512, 182: cp -r tmpdir/item.name dest
DmgCp(o) ==
    /\ dmg_pc = "cp"
    /\ Cmd("cp", o, "xattr")
    /\ UNCHANGED <<dmg_src, dmg_item, mounted>>
    /\ UNCHANGED <<cacheVars, versionVars, quietVars>>

\* lines 513, 183: xattr -r -d com.apple.quarantine dest
DmgXattr(o) ==
    /\ dmg_pc = "xattr"
    /\ Cmd("xattr", o, "detach")
    /\ UNCHANGED <<dmg_src, dmg_item, mounted>>
    /\ UNCHANGED <<cacheVars, versionVars, quietVars>>

\* lines 514-515, 184-185: hdiutil detach tmpdir -force, break
DmgDetach(o) ==
    /\ dmg_pc = "detach"
    /\ Cmd("detach", o, "returned")
    /\ mounted' = (mounted /\ o # "ok")
    /\ UNCHANGED <<dmg_src, dmg_item>>
    /\ UNCHANGED <<cacheVars, versionVars, quietVars>>

NextDmg ==
    \/ \E fn \in {"dmg", "aiodmg"}, src \in Sources : DmgCall(fn, src)
    \/ \E o \in CmdOutcomes : DmgAttach(o)
    \/ DmgIterdir
    \/ DmgItem
    \/ \E o \in CmdOutcomes : DmgCp(o)
    \/ \E o \in CmdOutcomes : DmgXattr(o)
    \/ \E o \in CmdOutcomes : DmgDetach(o)

SpecDmg == Init /\ [][NextDmg]_vars

\* The run has run the command `name`; with the outcome o.
Ran(name) == \E i \in 1..Len(commands) : commands[i][1] = name
RanWith(name, o) == \E i \in 1..Len(commands) : commands[i] = <<name, o>>

(***************************************************************************)
(* C20.  A run of dmg() or aiodmg() whose hdiutil attach succeeded has run *)
(* hdiutil detach when it ends, whether it returns or raises.              *)
(***************************************************************************)
C20_DetachesAfterAttach ==
    (dmg_pc \in {"returned", "raised"} /\ RanWith("attach", "ok")) => Ran("detach")

====
